---- MODULE Spec2Model ----
(***************************************************************************)
(* Model of DataOrganizerSuggester (src/data_organizer.py): the template   *)
(* catalog and suggest_structure, create_folder_structure over an explicit *)
(* filesystem, analyze_existing_data over an explicit directory listing,   *)
(* and the approach prompt of main().                                      *)
(***************************************************************************)
EXTENDS Integers, Sequences, FiniteSets, TLC

VARIABLES
  dirs,    \* filesystem: the set of existing directories, each a path (sequence of names)
  files,   \* filesystem: function from the paths of existing regular files to their content
  op,      \* the operation called last ("none" before any call)
  args,    \* the arguments of that call
  ret,     \* its outcome: [kind |-> "ok", value |-> ...] or [kind |-> "raise", exc |-> ...]
  prev,    \* history: op, args and ret of the call before the last one
  calls,   \* history: the number of calls made so far
  main     \* main(): the prompt it waits at (pc) and its locals approach and structure

vars == <<dirs, files, op, args, ret, prev, calls, main>>

Return(v) == [kind |-> "ok", value |-> v]
Raise(e) == [kind |-> "raise", exc |-> e]

----------------------------------------------------------------------------
(* Templates: a dict is an ordered sequence of key/value entries, a value   *)
(* is a dict or a list.                                                     *)

Dict(items) == [type |-> "dict", items |-> items]
List(items) == [type |-> "list", items |-> items]
EmptyList == List(<<>>)
K(name, value) == [key |-> name, value |-> value]

base_structures ==
  [
    by_type |-> Dict(<<
      K("Documents", Dict(<<
        K("PDFs", EmptyList),
        K("Word_Documents", EmptyList),
        K("Spreadsheets", EmptyList),
        K("Presentations", EmptyList),
        K("Text_Files", EmptyList),
        K("Archives", EmptyList)
      >>)),
      K("Media", Dict(<<
        K("Images", Dict(<<
          K("Photos", EmptyList),
          K("Screenshots", EmptyList),
          K("Graphics", EmptyList),
          K("Icons", EmptyList)
        >>)),
        K("Videos", Dict(<<
          K("Personal", EmptyList),
          K("Work", EmptyList),
          K("Educational", EmptyList)
        >>)),
        K("Audio", Dict(<<
          K("Music", EmptyList),
          K("Recordings", EmptyList),
          K("Podcasts", EmptyList)
        >>))
      >>)),
      K("Code_and_Development", Dict(<<
        K("Projects", EmptyList),
        K("Scripts", EmptyList),
        K("Documentation", EmptyList),
        K("Resources", EmptyList)
      >>)),
      K("Data_Files", Dict(<<
        K("Databases", EmptyList),
        K("CSV_Files", EmptyList),
        K("JSON_Files", EmptyList),
        K("XML_Files", EmptyList),
        K("Logs", EmptyList)
      >>)),
      K("Miscellaneous", Dict(<<
        K("Temporary", EmptyList),
        K("Unsorted", EmptyList),
        K("To_Review", EmptyList)
      >>))
    >>),
    by_project |-> Dict(<<
      K("Active_Projects", Dict(<<
        K("Project_A", Dict(<<
          K("Documents", EmptyList),
          K("Media", EmptyList),
          K("Data", EmptyList),
          K("Resources", EmptyList)
        >>)),
        K("Project_B", Dict(<<
          K("Documents", EmptyList),
          K("Media", EmptyList),
          K("Data", EmptyList),
          K("Resources", EmptyList)
        >>))
      >>)),
      K("Completed_Projects", Dict(<<
        K("Archive_2024", EmptyList),
        K("Archive_2023", EmptyList)
      >>)),
      K("Templates_and_Resources", Dict(<<
        K("Document_Templates", EmptyList),
        K("Media_Assets", EmptyList),
        K("Reference_Materials", EmptyList)
      >>)),
      K("Inbox", Dict(<<
        K("New_Items", EmptyList),
        K("To_Categorize", EmptyList)
      >>))
    >>),
    by_date |-> Dict(<<
      K("2024", Dict(<<
        K("Q1_Jan_Mar", Dict(<<
          K("January", EmptyList),
          K("February", EmptyList),
          K("March", EmptyList)
        >>)),
        K("Q2_Apr_Jun", Dict(<<
          K("April", EmptyList),
          K("May", EmptyList),
          K("June", EmptyList)
        >>)),
        K("Q3_Jul_Sep", Dict(<<
          K("July", EmptyList),
          K("August", EmptyList),
          K("September", EmptyList)
        >>)),
        K("Q4_Oct_Dec", Dict(<<
          K("October", EmptyList),
          K("November", EmptyList),
          K("December", EmptyList)
        >>))
      >>)),
      K("2023", Dict(<<
        K("Archive", EmptyList)
      >>))
    >>),
    hybrid_approach |-> Dict(<<
      K("01_Inbox", Dict(<<
        K("New_Items", EmptyList),
        K("Processing", EmptyList),
        K("Quick_Access", EmptyList)
      >>)),
      K("02_Active_Work", Dict(<<
        K("Current_Projects", Dict(<<
          K("Project_Alpha", Dict(<<
            K("Documents", EmptyList),
            K("Media", EmptyList),
            K("Data", EmptyList)
          >>))
        >>)),
        K("Daily_Tasks", EmptyList),
        K("Meetings_and_Notes", EmptyList)
      >>)),
      K("03_Resources", Dict(<<
        K("Templates", EmptyList),
        K("Reference_Materials", EmptyList),
        K("Tools_and_Utilities", EmptyList)
      >>)),
      K("04_Archive", Dict(<<
        K("By_Year", Dict(<<
          K("2024", EmptyList),
          K("2023", EmptyList)
        >>)),
        K("Completed_Projects", EmptyList)
      >>)),
      K("05_Personal", Dict(<<
        K("Photos", EmptyList),
        K("Documents", EmptyList),
        K("Media", EmptyList)
      >>))
    >>)
  ]

\* suggest_structure falling back to the default template for an unknown name
suggest_structure_or_default(approach) ==
  IF approach \notin DOMAIN base_structures
    THEN Return(base_structures["hybrid_approach"])
    ELSE Return(base_structures[approach])

suggest_structure(approach) ==
  IF approach \notin DOMAIN base_structures
    THEN Raise("ValueError")
    ELSE Return(base_structures[approach])

----------------------------------------------------------------------------
(* Paths and the filesystem                                                 *)

Root == <<>>
Parent(path) == IF Len(path) = 0 THEN path ELSE SubSeq(path, 1, Len(path) - 1)
Join(path, name) == Append(path, name)

RECURSIVE Str(_)
Str(path) ==
  IF Len(path) = 0 THEN "."
  ELSE IF Len(path) = 1 THEN path[1]
  ELSE Str(Parent(path)) \o "/" \o path[Len(path)]

Exists(d, f, path) == path \in d \/ path \in DOMAIN f
IsDir(d, path) == path \in d
FileAbove(f, path) == \E i \in 0..(Len(path) - 1) : SubSeq(path, 1, i) \in DOMAIN f

\* os.mkdir: one directory, no parents; fail is an injected permission failure
OsMkdir(d, f, path, fail) ==
  IF Exists(d, f, path) THEN [dirs |-> d, err |-> "FileExistsError"]
  ELSE IF FileAbove(f, path) THEN [dirs |-> d, err |-> "NotADirectoryError"]
  ELSE IF Parent(path) \notin d THEN [dirs |-> d, err |-> "FileNotFoundError"]
  ELSE IF fail THEN [dirs |-> d, err |-> "PermissionError"]
  ELSE [dirs |-> d \cup {path}, err |-> "none"]

\* Path.mkdir(parents=True, exist_ok=True); fault is "none", "mkdir" (the
\* directory itself cannot be created) or "mkdir_parent" (a missing ancestor cannot)
RECURSIVE PathMkdir(_, _, _, _, _)
PathMkdir(d, f, path, fault, isNode) ==
  LET fail == IF isNode THEN fault = "mkdir" ELSE fault = "mkdir_parent"
      r == OsMkdir(d, f, path, fail)
  IN  IF r.err = "none" THEN r
      ELSE IF r.err = "FileNotFoundError"
        THEN LET up == PathMkdir(d, f, Parent(path), fault, FALSE)
             IN  IF up.err # "none" THEN up
                 ELSE LET again == OsMkdir(up.dirs, f, path, fail)
                      IN  IF again.err = "none" \/ IsDir(again.dirs, path)
                            THEN [again EXCEPT !.err = "none"]
                            ELSE again
      ELSE IF IsDir(d, path) THEN [r EXCEPT !.err = "none"]
      ELSE r

\* The text line 216 writes is computed from folder_name alone; the model
\* keeps the folder name it is computed from.
ReadmeText(folder_name) == <<"# ", folder_name>>
PartialText == <<>>
ReadmeName == "README.md"

----------------------------------------------------------------------------
(* create_folder_structure                                                  *)

NoFault == [kind |-> "none", at |-> 0]

\* line 208: created_folders.append(str(folder_path)), with the append at the wrong end
AppendFolderAtFront(out, folder_path) == <<Str(folder_path)>> \o out

\* line 208: created_folders.append(str(folder_path))
AppendFolder(out, folder_path) == Append(out, Str(folder_path))

\* line 210 with the dry-run test dropped
TouchesDiskAlways(dry_run) == TRUE

\* line 210: if not dry_run
TouchesDisk(dry_run) == ~dry_run

\* line 214 with the existence test dropped: the README.md is always rewritten
ReadmePresentNever(d, f, readme_path) == FALSE

\* line 214: readme_path.exists()
ReadmePresent(d, f, readme_path) == Exists(d, f, readme_path)

\* an exception caught inside the loop, which then goes on to the next folder
AbortedNever(st) == FALSE

\* an exception raised in the loop body leaves every enclosing loop and call
Aborted(st) == st.exc # "none"

\* One iteration of the loop body of create_recursive, lines 207-216, for the
\* folder folder_name under current_path; st carries created_folders (out),
\* the filesystem, the exception raised so far and the count of visited nodes.
VisitFolder(st, current_path, folder_name, dry_run, fault) ==
  LET folder_path == Join(current_path, folder_name)
      st1 == [st EXCEPT !.out = AppendFolder(@, folder_path), !.n = @ + 1]
      fk == IF fault.at = st1.n THEN fault.kind ELSE "none"
      m == PathMkdir(st1.dirs, st1.files, folder_path, fk, TRUE)
      readme_path == Join(folder_path, ReadmeName)
  IN  IF ~TouchesDisk(dry_run) THEN st1
      ELSE IF m.err # "none" THEN [st1 EXCEPT !.dirs = m.dirs, !.exc = m.err]
      ELSE IF ReadmePresent(m.dirs, st1.files, readme_path) THEN [st1 EXCEPT !.dirs = m.dirs]
      ELSE IF fk = "open" THEN [st1 EXCEPT !.dirs = m.dirs, !.exc = "PermissionError"]
      ELSE IF fk = "write"
        THEN [st1 EXCEPT !.dirs = m.dirs,
                         !.files = @ @@ (readme_path :> PartialText),
                         !.exc = "OSError"]
      ELSE [st1 EXCEPT !.dirs = m.dirs,
                       !.files = @ @@ (readme_path :> ReadmeText(folder_name))]

\* create_recursive(current_path, struct), lines 205-219, from the i-th entry
\* of struct on; an exception ends every enclosing loop.
RECURSIVE CreateRecursive(_, _, _, _, _, _)
CreateRecursive(st, current_path, struct, i, dry_run, fault) ==
  IF Aborted(st) \/ i > Len(struct.items) THEN st
  ELSE LET e == struct.items[i]
           st2 == VisitFolder(st, current_path, e.key, dry_run, fault)
           st3 == IF ~Aborted(st2) /\ e.value.type = "dict"
                    THEN CreateRecursive(st2, Join(current_path, e.key), e.value, 1,
                                         dry_run, fault)
                    ELSE st2
       IN  CreateRecursive(st3, current_path, struct, i + 1, dry_run, fault)

\* create_folder_structure(base_path, structure, dry_run) on the filesystem
\* (d, f): the filesystem it leaves and what the call returns or raises.
create_folder_structure(d, f, base_path, structure, dry_run, fault) ==
  LET st == CreateRecursive([out |-> <<>>, dirs |-> d, files |-> f, exc |-> "none", n |-> 0],
                            base_path, structure, 1, dry_run, fault)
  IN  [dirs |-> st.dirs, files |-> st.files,
       ret |-> IF st.exc = "none" THEN Return(st.out) ELSE Raise(st.exc)]

----------------------------------------------------------------------------------------------------------------------------------------------
(* Inputs and bounds of the create_folder_structure specification           *)

\* A behaviour makes at most MaxCalls calls.
MaxCalls == 2

\* The nodes of a template, each named by its index path: <<2, 1>> is the
\* first key of the dict under the second top-level key.
RECURSIVE NodeIdx(_)
NodeIdx(value) ==
  IF value.type # "dict" THEN {}
  ELSE UNION { {<<i>>} \cup { <<i>> \o p : p \in NodeIdx(value.items[i].value) } :
               i \in 1..Len(value.items) }

\* The number of keys of a template, at every nesting level.
NodeCount(structure) == Cardinality(NodeIdx(structure))

\* An I/O failure can strike at any one visited node: creating the folder
\* ("mkdir"), creating a missing ancestor of it ("mkdir_parent"), opening
\* its README.md ("open") or writing to it once opened ("write").
FaultKinds == {"mkdir", "mkdir_parent", "open", "write"}
Faults(structure) == {NoFault} \cup [kind : FaultKinds, at : 1..NodeCount(structure)]

BasePaths == {<<"out">>, <<"out", "A">>}

Structures ==
  { Dict(<<>>),
    Dict(<< K("A", Dict(<< K("B", EmptyList), K("C", EmptyList) >>)),
            K("D", List(<<"notes.txt">>)) >>),
    Dict(<< K("B", Dict(<<>>)) >>) }

UserText == <<"user notes">>

\* Filesystems a call can start from: nothing there yet; a folder holding the
\* user's own README.md; a regular file where a template wants a folder.
InitialFilesystems ==
  { [dirs |-> {Root}, files |-> <<>>],
    [dirs |-> {Root, <<"out">>, <<"out", "A">>},
     files |-> (<<"out", "A", "README.md">> :> UserText)],
    [dirs |-> {Root, <<"out">>},
     files |-> (<<"out", "D">> :> UserText)] }

NotRunning == [pc |-> "none"]

NoCall == [op |-> "none", args |-> <<>>, ret |-> Return(<<>>)]

----------------------------------------------------------------------------
(* Actions                                                                  *)

CreateFolderStructure(base_path, structure, dry_run, fault) ==
  LET r == create_folder_structure(dirs, files, base_path, structure, dry_run, fault)
  IN  /\ calls < MaxCalls
      /\ dry_run => fault = NoFault
      /\ dirs' = r.dirs
      /\ files' = r.files
      /\ op' = "create_folder_structure"
      /\ args' = [base_path |-> base_path, structure |-> structure,
                  dry_run |-> dry_run, fault |-> fault]
      /\ ret' = r.ret
      /\ prev' = [op |-> op, args |-> args, ret |-> ret]
      /\ calls' = calls + 1
      /\ UNCHANGED main

InitCreate ==
  /\ \E fs \in InitialFilesystems : dirs = fs.dirs /\ files = fs.files
  /\ op = "none"
  /\ args = <<>>
  /\ ret = Return(<<>>)
  /\ prev = NoCall
  /\ calls = 0
  /\ main = NotRunning

NextCreate ==
  \E base_path \in BasePaths, structure \in Structures, dry_run \in BOOLEAN :
    \E fault \in Faults(structure) :
      CreateFolderStructure(base_path, structure, dry_run, fault)

SpecCreate == InitCreate /\ [][NextCreate]_vars

----------------------------------------------------------------------------
(* Properties of create_folder_structure                                    *)

IsCreate(o) == o = "create_folder_structure"

\* The names along an index path, and the folder it denotes under base_path.
RECURSIVE NodeNames(_, _)
NodeNames(value, idx) ==
  IF Len(idx) = 0 THEN <<>>
  ELSE <<value.items[idx[1]].key>> \o NodeNames(value.items[idx[1]].value, Tail(idx))

NodePath(base_path, structure, idx) == base_path \o NodeNames(structure, idx)

\* p comes before q in pre-order: p is a proper ancestor of q, or p lies in
\* the subtree of an earlier sibling of an ancestor-or-self of q.
LexBefore(p, q) ==
  \E k \in 0..Len(p) :
    /\ k <= Len(q)
    /\ SubSeq(p, 1, k) = SubSeq(q, 1, k)
    /\ \/ k = Len(p) /\ k < Len(q)
       \/ k < Len(p) /\ k < Len(q) /\ p[k + 1] < q[k + 1]

\* The nodes of structure in pre-order: the node at position k has exactly
\* k - 1 nodes before it.
PreOrder(structure) ==
  LET nodes == NodeIdx(structure)
  IN  [k \in 1..Cardinality(nodes) |->
         CHOOSE idx \in nodes : Cardinality({q \in nodes : LexBefore(q, idx)}) = k - 1]

\* The folders of structure under base_path, in pre-order, for every input
\* of the specification.
PreOrderTable ==
  [t \in BasePaths \X Structures |->
     LET order == PreOrder(t[2])
     IN  [k \in DOMAIN order |-> NodePath(t[1], t[2], order[k])]]

PreOrderPaths(base_path, structure) == PreOrderTable[<<base_path, structure>>]

SameTarget(a, b) == a.base_path = b.base_path /\ a.structure = b.structure

IsPrefix(p, q) == Len(p) <= Len(q) /\ SubSeq(q, 1, Len(p)) = p

\* C1: a dry run changes nothing on the filesystem (no directory is created and no
\* README.md written), it returns, and a dry run that repeats the dry run before it
\* (same base path, same template) returns the same path sequence.
C1_DryRunPureAndRepeatable ==
  [][ (IsCreate(op') /\ args'.dry_run) =>
        /\ dirs' = dirs
        /\ files' = files
        /\ ret'.kind = "ok"
        /\ (IsCreate(op) /\ args.dry_run /\ SameTarget(args, args')) => ret' = ret ]_vars

\* C1 witness: on a filesystem where nothing of the template exists yet, a dry run
\* of a four-node template has just repeated the dry run before it.
C1_Witness ==
  /\ IsCreate(op) /\ args.dry_run
  /\ IsCreate(prev.op) /\ prev.args.dry_run /\ SameTarget(prev.args, args)
  /\ Len(ret.value) = 4
  /\ dirs = {Root}

\* C2: a call that is not a dry run never changes a file that exists when it starts;
\* and when it repeats the call before it (same base path and template, not a dry run,
\* returned normally) it returns too, with the same path sequence, and leaves the set of
\* folders and every file as the first call left them.
C2_RealRunIdempotent ==
  [][ (IsCreate(op') /\ ~args'.dry_run) =>
        /\ \A p \in DOMAIN files : p \in DOMAIN files' /\ files'[p] = files[p]
        /\ (IsCreate(op) /\ ~args.dry_run /\ ret.kind = "ok" /\ SameTarget(args, args')) =>
              /\ ret' = ret
              /\ dirs' = dirs
              /\ files' = files ]_vars

\* C2 witness: the second of two successive real runs of the four-node template has
\* returned on a filesystem where one of its folders holds the user's own README.md
\* and another the README.md the first run wrote.
C2_Witness ==
  /\ IsCreate(op) /\ ~args.dry_run /\ ret.kind = "ok"
  /\ IsCreate(prev.op) /\ ~prev.args.dry_run /\ prev.ret.kind = "ok"
  /\ SameTarget(prev.args, args)
  /\ args.base_path = <<"out">>
  /\ Len(ret.value) = 4
  /\ files[<<"out", "A", "README.md">>] = UserText
  /\ files[<<"out", "A", "B", "README.md">>] = ReadmeText("B")

\* C3: whenever create_folder_structure returns, dry run or not, the returned sequence
\* is the pre-order enumeration of the template's nodes: its length is the node count,
\* and the node of pre-order rank r (parents before descendants, siblings and their
\* subtrees in declaration order) is at position r, as the string of its path.
C3_ResultIsPreOrder ==
  (IsCreate(op) /\ ret.kind = "ok") =>
    LET paths == PreOrderPaths(args.base_path, args.structure)
    IN  /\ Len(ret.value) = Cardinality(NodeIdx(args.structure))
        /\ DOMAIN paths = 1..Len(ret.value)
        /\ \A k \in DOMAIN paths : ret.value[k] = Str(paths[k])

\* C3 witness: a real run of the template {A: {B, C}, D: [...]} has returned its four
\* paths.
C3_Witness ==
  /\ IsCreate(op) /\ ~args.dry_run /\ ret.kind = "ok"
  /\ Len(ret.value) = 4
  /\ args.base_path = <<"out", "A">>

IOErrors == {"PermissionError", "OSError", "FileExistsError", "NotADirectoryError"}

\* C4: a call that is not a dry run either returns, and then every node's folder exists
\* with a README.md that is whole if this call wrote it, or raises an I/O error and
\* returns nothing; when it raises, there is a failing node k such that every node
\* before k in pre-order is in place with its README.md, node k is not (its folder or
\* README.md is missing, or its README.md was left unfinished), nothing was created
\* for any node after k, and everything that existed before the call is still there.
C4_FailureAbortsWithoutRollback ==
  [][ (IsCreate(op') /\ ~args'.dry_run) =>
        \A path \in {PreOrderPaths(args'.base_path, args'.structure)} :
        \A New \in {(dirs' \ dirs) \cup (DOMAIN files' \ DOMAIN files)} :
        LET N == Len(path)
            readme(k) == Join(path[k], ReadmeName)
            name(k) == path[k][Len(path[k])]
            InPlace(k) == path[k] \in dirs' /\ Exists(dirs', files', readme(k))
            Whole(k) == readme(k) \in New => files'[readme(k)] = ReadmeText(name(k))
            Within(k) == \A p \in New : \E j \in 1..k : IsPrefix(p, path[j]) \/ p = readme(j)
            Kept == /\ dirs \subseteq dirs'
                    /\ \A p \in DOMAIN files : p \in DOMAIN files' /\ files'[p] = files[p]
        IN  /\ ret'.kind \in {"ok", "raise"}
            /\ ret'.kind = "ok" => \A k \in 1..N : InPlace(k) /\ Whole(k)
            /\ ret'.kind = "raise" =>
                 /\ ret'.exc \in IOErrors
                 /\ Kept
                 /\ \E k \in 1..N :
                      /\ \A j \in 1..(k - 1) : InPlace(j) /\ Whole(j)
                      /\ ~(InPlace(k) /\ Whole(k))
                      /\ Within(k) ]_vars

\* C4 witness: the write of the third node's README.md has failed, and the first two
\* nodes' folders and README.md files, created by the same call, are there.
C4_Witness ==
  /\ IsCreate(op) /\ ~args.dry_run /\ ret.kind = "raise"
  /\ args.fault = [kind |-> "write", at |-> 3]
  /\ args.base_path = <<"out">>
  /\ prev.op = "none"
  /\ <<"out", "A", "B">> \in dirs
  /\ files[<<"out", "A", "B", "README.md">>] = ReadmeText("B")
  /\ files[<<"out", "A", "C", "README.md">>] = PartialText
  /\ <<"out", "D">> \notin dirs

----------------------------------------------------------------------------
(* Strings as sequences of characters                                       *)

LowerChar(c) ==
  CASE c = "A" -> "a"
    [] c = "B" -> "b"
    [] c = "C" -> "c"
    [] c = "D" -> "d"
    [] c = "E" -> "e"
    [] c = "F" -> "f"
    [] c = "G" -> "g"
    [] c = "H" -> "h"
    [] c = "I" -> "i"
    [] c = "J" -> "j"
    [] c = "K" -> "k"
    [] c = "L" -> "l"
    [] c = "M" -> "m"
    [] c = "N" -> "n"
    [] c = "O" -> "o"
    [] c = "P" -> "p"
    [] c = "Q" -> "q"
    [] c = "R" -> "r"
    [] c = "S" -> "s"
    [] c = "T" -> "t"
    [] c = "U" -> "u"
    [] c = "V" -> "v"
    [] c = "W" -> "w"
    [] c = "X" -> "x"
    [] c = "Y" -> "y"
    [] c = "Z" -> "z"
    [] OTHER -> c

\* str.lower()
Lower(s) == [i \in 1..Len(s) |-> LowerChar(s[i])]

\* The Python string of a sequence of characters.
RECURSIVE Cat(_)
Cat(s) == IF Len(s) = 0 THEN "" ELSE s[1] \o Cat(Tail(s))

\* str.rfind(c): the 0-based index of the last c in s, -1 when there is none
RECURSIVE RFindFrom(_, _, _)
RFindFrom(s, c, n) ==
  IF n = 0 THEN -1
  ELSE IF s[n] = c THEN n - 1
  ELSE RFindFrom(s, c, n - 1)

RFind(s, c) == RFindFrom(s, c, Len(s))

\* PurePath.suffix with the test on the dot's position dropped
SuffixFromLastDot(name) ==
  LET i == RFind(name, ".")
  IN  IF i >= 0 THEN SubSeq(name, i + 1, Len(name)) ELSE <<>>

\* PurePath.suffix of a final path component (pathlib of Python 3.4 to 3.13):
\* i = name.rfind('.'); name[i:] if 0 < i < len(name) - 1 else ''
Suffix(name) ==
  LET i == RFind(name, ".")
  IN  IF 0 < i /\ i < Len(name) - 1 THEN SubSeq(name, i + 1, Len(name)) ELSE <<>>

----------------------------------------------------------------------------
(* analyze_existing_data                                                    *)

file_type_mappings ==
  [
    documents |-> << ".pdf", ".doc", ".docx", ".txt", ".rtf", ".odt" >>,
    spreadsheets |-> << ".xls", ".xlsx", ".csv", ".ods" >>,
    presentations |-> << ".ppt", ".pptx", ".odp" >>,
    images |-> << ".jpg", ".jpeg", ".png", ".gif", ".bmp", ".tiff", ".svg" >>,
    videos |-> << ".mp4", ".avi", ".mov", ".wmv", ".flv", ".mkv" >>,
    audio |-> << ".mp3", ".wav", ".flac", ".aac", ".ogg" >>,
    archives |-> << ".zip", ".rar", ".7z", ".tar", ".gz" >>,
    code |-> << ".py", ".js", ".html", ".css", ".java", ".cpp", ".c" >>,
    data |-> << ".json", ".xml", ".sql", ".db", ".sqlite" >>
  ]

\* dict.get(key, 0)
Get(d, key) == IF key \in DOMAIN d THEN d[key] ELSE 0

\* d[key] = value
Put(d, key, value) == [k \in DOMAIN d \cup {key} |-> IF k = key THEN value ELSE d[k]]

\* sum(file_types.get(ext, 0) for ext in exts)
RECURSIVE SumCounts(_, _)
SumCounts(file_types, exts) ==
  IF Len(exts) = 0 THEN 0
  ELSE Get(file_types, exts[1]) + SumCounts(file_types, Tail(exts))

BytesPerMB == 1048576
LargeFileMB == 100
ManyFiles == 1000

\* round(size / (1024 * 1024), 2), in hundredths of a megabyte: the quotient
\* is exact in binary floating point, and round() rounds its ties to even.
SizeMBHundredths(size) ==
  LET whole == size \div BytesPerMB
      scaled == (size % BytesPerMB) * 100
      q == scaled \div BytesPerMB
      r == scaled % BytesPerMB
      up == 2 * r > BytesPerMB \/ (2 * r = BytesPerMB /\ (whole * 100 + q) % 2 = 1)
  IN  whole * 100 + q + (IF up THEN 1 ELSE 0)

\* size / (1024 * 1024) > 100
IsLarge(size) == size > LargeFileMB * BytesPerMB

\* lines 262-263 with the handler re-raising
OnStatErrorRaise(fa) == [fa EXCEPT !.exc = "OSError"]

\* lines 262-263: except: pass
OnStatError(fa) == fa

\* Lines 247-263 for a run of e.times entries that share a name, a kind and a
\* stat() outcome and lie in e.times different sub-directories of data_path:
\* what e.times iterations of the loop body do to file_analysis.
VisitRun(fa, data_path, e) ==
  IF fa.exc # "none" \/ e.kind # "file" THEN fa
  ELSE LET suffix == Cat(Lower(Suffix(e.name)))
           fa1 == [fa EXCEPT !.total_files = @ + e.times,
                             !.file_types = Put(@, suffix, Get(@, suffix) + e.times)]
       IN  IF ~e.stat_ok THEN OnStatError(fa1)
           ELSE IF IsLarge(e.size)
             THEN [fa1 EXCEPT !.large_files =
                     @ \o [i \in 1..e.times |->
                             [path |-> <<data_path, i, Cat(e.name)>>,
                              size_mb |-> SizeMBHundredths(e.size)]]]
           ELSE fa1

\* the loop of line 246 over what rglob('*') yields, from the i-th run on
RECURSIVE Walk(_, _, _, _)
Walk(fa, data_path, listing, i) ==
  IF i > Len(listing) THEN fa
  ELSE Walk(VisitRun(fa, data_path, listing[i]), data_path, listing, i + 1)

RecProject == "Consider using 'by_project' approach - you have many document files"
RecType == "Consider using 'by_type' approach - you have many media files"
RecHybrid == "Consider using 'hybrid_approach' for balanced organization"
RecLarge == "Consider creating a separate 'Large_Files' folder for files >100MB"
RecDate == "Consider using date-based organization due to large number of files"

\* line 273 with >= for >
MoreDocsOrEqual(doc_files, media_files) == doc_files >= media_files

\* line 273: doc_files > media_files
MoreDocs(doc_files, media_files) == doc_files > media_files

\* lines 265-284
Recommendations(fa) ==
  LET doc_files == SumCounts(fa.file_types, file_type_mappings.documents)
      media_files == SumCounts(fa.file_types,
                               file_type_mappings.images \o file_type_mappings.videos
                                 \o file_type_mappings.audio)
      r1 == IF MoreDocs(doc_files, media_files) THEN <<RecProject>>
            ELSE IF media_files > doc_files THEN <<RecType>>
            ELSE <<RecHybrid>>
      r2 == IF Len(fa.large_files) > 0 THEN Append(r1, RecLarge) ELSE r1
  IN  IF fa.total_files > ManyFiles THEN Append(r2, RecDate) ELSE r2

\* line 235 with the test dropped
PathMissingNever(tree) == FALSE

\* line 235: not data_path.exists()
PathMissing(tree) == ~tree.exists

\* analyze_existing_data(data_path) where tree is what the filesystem holds
\* at data_path: whether it exists and what rglob('*') yields, in its order.
analyze_existing_data(data_path, tree) ==
  IF PathMissing(tree)
    THEN Return([error |-> "Path " \o data_path \o " does not exist"])
  ELSE LET fa == Walk([total_files |-> 0, file_types |-> <<>>, large_files |-> <<>>,
                       exc |-> "none"], data_path, tree.listing, 1)
       IN  IF fa.exc # "none" THEN Raise(fa.exc)
           ELSE Return([total_files |-> fa.total_files,
                        file_types |-> fa.file_types,
                        large_files |-> fa.large_files,
                        recommendations |-> Recommendations(fa)])

----------------------------------------------------------------------------
(* Inputs and bounds of the suggest_structure / analyze_existing_data       *)
(* specification                                                            *)

\* File names are drawn from every string of at most MaxNameLen characters
\* over NameAlphabet, and from a few names with the extensions of
\* file_type_mappings.
MaxNameLen == 4
\* A directory listing is at most MaxListing runs long.
MaxListing == 2

NameAlphabet == {"a", "B", "."}
AlphabetNames ==
  (UNION {[1..n -> NameAlphabet] : n \in 1..MaxNameLen}) \ {<<".">>, <<".", ".">>}

Approaches ==
  DOMAIN base_structures \cup {"", "hybrid", "By_Type", "by_type ", "1", "by-date"}

File(name, stat_ok, size, times) ==
  [name |-> name, kind |-> "file", stat_ok |-> stat_ok, size |-> size, times |-> times]

\* One file of every name of AlphabetNames.
NameRuns == {File(n, TRUE, 0, 1) : n \in AlphabetNames}

\* Documents, media and other files, small, of exactly 100 MB and larger, some
\* of them unreadable, in runs of 1, 2, 1000 and 1001; and a directory.
CoreRuns ==
  { File(<<"r", ".", "p", "d", "f">>, TRUE, 0, 1),
    File(<<"N", ".", "T", "X", "T">>, TRUE, 0, 1000),
    File(<<"p", ".", "j", "p", "g">>, TRUE, 104857600, 1),
    File(<<"s", ".", "m", "p", "3">>, TRUE, 0, 1001),
    File(<<"v", ".", "M", "P", "4">>, TRUE, 157417472, 1),
    File(<<"x", ".", "p", "d", "f">>, FALSE, 157286400, 1),
    File(<<"R", "E", "A", "D", "M", "E">>, TRUE, 104857601, 2),
    File(<<"t", ".", "c", "s", "v">>, TRUE, 0, 1),
    [name |-> <<"d", ".", "p", "d", "f">>, kind |-> "dir", stat_ok |-> TRUE, size |-> 0,
     times |-> 1] }

Listings ==
  {<<r>> : r \in NameRuns} \cup (UNION {[1..n -> CoreRuns] : n \in 0..MaxListing})

PlanInputs ==
  {[call |-> "analyze", data_path |-> "data", tree |-> [exists |-> TRUE, listing |-> l]] :
     l \in Listings}
  \cup {[call |-> "analyze", data_path |-> "missing",
         tree |-> [exists |-> FALSE, listing |-> <<>>]]}
  \cup {[call |-> "suggest", approach |-> a] : a \in Approaches}

----------------------------------------------------------------------------
(* Actions                                                                  *)

SuggestStructure ==
  /\ op = "none"
  /\ args.call = "suggest"
  /\ op' = "suggest_structure"
  /\ ret' = suggest_structure(args.approach)
  /\ UNCHANGED <<dirs, files, args, prev, calls, main>>

AnalyzeExistingData ==
  /\ op = "none"
  /\ args.call = "analyze"
  /\ op' = "analyze_existing_data"
  /\ ret' = analyze_existing_data(args.data_path, args.tree)
  /\ UNCHANGED <<dirs, files, args, prev, calls, main>>

InitPlan ==
  /\ dirs = {Root}
  /\ files = <<>>
  /\ op = "none"
  /\ args \in PlanInputs
  /\ ret = Return(<<>>)
  /\ prev = NoCall
  /\ calls = 0
  /\ main = NotRunning

NextPlan == SuggestStructure \/ AnalyzeExistingData

SpecPlan == InitPlan /\ [][NextPlan]_vars

----------------------------------------------------------------------------
(* Properties of suggest_structure and analyze_existing_data                *)

CatalogNames == {"by_type", "by_project", "by_date", "hybrid_approach"}

\* C5: suggest_structure returns a non-empty template for each of the four catalog
\* names, and raises ValueError, returning nothing, for every other string.
C5_SuggestStructure ==
  op = "suggest_structure" =>
    IF args.approach \in CatalogNames
      THEN /\ ret.kind = "ok"
           /\ ret.value.type = "dict"
           /\ Len(ret.value.items) > 0
      ELSE ret = Raise("ValueError")

\* C5 witness: suggest_structure has raised ValueError for a name that differs from a
\* catalog name only in case.
C5_Witness ==
  /\ op = "suggest_structure"
  /\ args.approach = "By_Type"
  /\ ret.kind = "raise"

Analyzed == op = "analyze_existing_data"

\* C6: analyze_existing_data on a path that does not exist returns (it does not raise)
\* a value whose only field is the error indicator.
C6_MissingPathReport ==
  (Analyzed /\ ~args.tree.exists) =>
    /\ ret.kind = "ok"
    /\ DOMAIN ret.value = {"error"}

\* C6 witness: analyze_existing_data has been called on a path that does not exist.
C6_Witness == Analyzed /\ ~args.tree.exists /\ ret.kind = "ok"

Elems(seq) == {seq[i] : i \in DOMAIN seq}

\* The sum of f over the finite set S.
RECURSIVE SumOver(_, _)
SumOver(S, f) ==
  IF S = {} THEN 0
  ELSE LET x == CHOOSE y \in S : TRUE IN f[x] + SumOver(S \ {x}, f)

\* The number of files among the runs of listing that satisfy Test.
CountFiles(listing, Test(_)) ==
  SumOver({i \in DOMAIN listing : listing[i].kind = "file" /\ Test(listing[i])},
          [i \in DOMAIN listing |-> listing[i].times])

ReportFields == {"total_files", "file_types", "large_files", "recommendations"}

\* C7: the recommendations of a report are the template recommendation (project-based
\* when the counts of the documents extensions sum to more than those of the images,
\* videos and audio extensions, type-based when to less, hybrid when they are equal),
\* then the large-files recommendation exactly when large_files is not empty, then the
\* date-based recommendation exactly when total_files exceeds 1000.
C7_Recommendations ==
  (Analyzed /\ ret.kind = "ok" /\ args.tree.exists) =>
    LET r == ret.value
        tally == [e \in DOMAIN r.file_types |-> r.file_types[e]]
        docCount == SumOver(Elems(file_type_mappings.documents) \cap DOMAIN tally, tally)
        mediaCount == SumOver((Elems(file_type_mappings.images)
                                 \cup Elems(file_type_mappings.videos)
                                 \cup Elems(file_type_mappings.audio)) \cap DOMAIN tally, tally)
        rule1 == IF docCount > mediaCount THEN <<RecProject>>
                 ELSE IF mediaCount > docCount THEN <<RecType>>
                 ELSE <<RecHybrid>>
        rule2 == IF r.large_files # <<>> THEN <<RecLarge>> ELSE <<>>
        rule3 == IF r.total_files > 1000 THEN <<RecDate>> ELSE <<>>
    IN  r.recommendations = rule1 \o rule2 \o rule3

\* C7 witness: a report of 1002 files, 1000 of them documents and two of them large,
\* carries the project-based, the large-files and the date-based recommendation.
C7_Witness ==
  /\ Analyzed /\ ret.kind = "ok" /\ args.tree.exists
  /\ ret.value.total_files = 1002
  /\ ret.value.recommendations = <<RecProject, RecLarge, RecDate>>

\* C8: a file whose size cannot be read does not make analyze_existing_data raise or
\* report anything: the call returns a report with the four report fields only, in which
\* every file of the listing is counted, the unreadable ones included, and large_files
\* holds every readable file of more than 100 MB, also those listed after an unreadable
\* file, and no unreadable one.
C8_StatFailureSwallowed ==
  (Analyzed /\ args.tree.exists) =>
    LET AnyFile(e) == TRUE
        ReadableLarge(e) == e.stat_ok /\ e.size > 100 * 1048576
    IN  /\ ret.kind = "ok"
        /\ DOMAIN ret.value = ReportFields
        /\ ret.value.total_files = CountFiles(args.tree.listing, AnyFile)
        /\ Len(ret.value.large_files) = CountFiles(args.tree.listing, ReadableLarge)

\* C8 witness: the listing holds an unreadable file followed by a readable large one,
\* and the report lists the large one.
C8_Witness ==
  /\ Analyzed /\ args.tree.exists /\ ret.kind = "ok"
  /\ Len(args.tree.listing) = 2
  /\ args.tree.listing[1].kind = "file" /\ ~args.tree.listing[1].stat_ok
  /\ args.tree.listing[2].kind = "file" /\ args.tree.listing[2].stat_ok
  /\ Len(ret.value.large_files) = 1
  /\ ret.value.total_files = 2

\* The extension counts of the report are the tally of the listing's files under Key.
TalliedUnder(Key(_)) ==
  LET listing == args.tree.listing
      keys == DOMAIN ret.value.file_types \cup
              {Key(listing[i].name) : i \in {j \in DOMAIN listing : listing[j].kind = "file"}}
  IN  \A k \in keys :
        LET HasKey(e) == Key(e.name) = k
        IN  Get(ret.value.file_types, k) = CountFiles(listing, HasKey)

\* The lowercased substring of name from its last '.' onward, "" without a '.'.
FromLastDot(name) ==
  IF \E i \in DOMAIN name : name[i] = "."
    THEN LET i == CHOOSE i \in DOMAIN name :
                    name[i] = "." /\ \A j \in DOMAIN name : j > i => name[j] # "."
         IN  Cat(Lower(SubSeq(name, i, Len(name))))
    ELSE ""

\* FromLastDot when the last '.' is neither the first nor the last character of
\* name, "" otherwise.
InnerLastDot(name) ==
  IF \E i \in DOMAIN name : name[i] = "." /\ 1 < i /\ i < Len(name)
                            /\ \A j \in DOMAIN name : j > i => name[j] # "."
    THEN FromLastDot(name)
    ELSE ""

\* C10 as claimed: every file is tallied under the lowercased substring of its name
\* from the last '.' onward (the empty string without a '.'), names that start or end
\* with '.' included.
C10_KeyFromLastDot ==
  (Analyzed /\ ret.kind = "ok" /\ args.tree.exists) => TalliedUnder(FromLastDot)

\* C10 as amended: every file is tallied under the lowercased substring of its name
\* from the last '.' onward when that '.' is neither the first nor the last character
\* of the name, and under the empty string otherwise.
C10_KeyIsInnerSuffix ==
  (Analyzed /\ ret.kind = "ok" /\ args.tree.exists) => TalliedUnder(InnerLastDot)

\* C10 witness: a file named ".a" has been tallied under the empty string.
C10_Witness ==
  /\ Analyzed /\ ret.kind = "ok" /\ args.tree.exists
  /\ Len(args.tree.listing) = 1
  /\ args.tree.listing[1].name = <<".", "a">>
  /\ DOMAIN ret.value.file_types = {""}

----------------------------------------------------------------------------
(* main(): the three prompts                                                *)

\* str.strip() of a string whose only whitespace is the space
RECURSIVE LStrip(_)
LStrip(s) == IF Len(s) > 0 /\ s[1] = " " THEN LStrip(Tail(s)) ELSE s

RECURSIVE RStrip(_)
RStrip(s) == IF Len(s) > 0 /\ s[Len(s)] = " " THEN RStrip(SubSeq(s, 1, Len(s) - 1)) ELSE s

Strip(s) == RStrip(LStrip(s))

Digits == {"0", "1", "2", "3", "4", "5", "6", "7", "8", "9"}

DigitValue(c) ==
  CASE c = "0" -> 0
    [] c = "1" -> 1
    [] c = "2" -> 2
    [] c = "3" -> 3
    [] c = "4" -> 4
    [] c = "5" -> 5
    [] c = "6" -> 6
    [] c = "7" -> 7
    [] c = "8" -> 8
    [] c = "9" -> 9

\* The value of a run of decimal digits with underscores between them.
RECURSIVE DigitsValue(_, _)
DigitsValue(t, acc) ==
  IF Len(t) = 0 THEN acc
  ELSE IF t[1] = "_" THEN DigitsValue(Tail(t), acc)
  ELSE DigitsValue(Tail(t), 10 * acc + DigitValue(t[1]))

\* int(s) for a str s: surrounding whitespace, an optional sign, decimal
\* digits with single underscores between digits; ValueError otherwise.
ParseInt(s) ==
  LET u == Strip(s)
      signed == Len(u) > 0 /\ u[1] \in {"+", "-"}
      t == IF signed THEN Tail(u) ELSE u
      wellFormed == /\ Len(t) > 0
                    /\ t[1] \in Digits
                    /\ t[Len(t)] \in Digits
                    /\ \A i \in DOMAIN t : t[i] \in Digits \cup {"_"}
                    /\ \A i \in 1..(Len(t) - 1) : ~(t[i] = "_" /\ t[i + 1] = "_")
  IN  IF ~wellFormed THEN [ok |-> FALSE, value |-> 0]
      ELSE [ok |-> TRUE,
            value |-> IF signed /\ u[1] = "-" THEN 0 - DigitsValue(t, 0)
                      ELSE DigitsValue(t, 0)]

\* list[i] for a Python list: 0-based, a negative i counts from the end.
ListItem(list, i) ==
  IF 0 <= i /\ i < Len(list) THEN [ok |-> TRUE, value |-> list[i + 1]]
  ELSE IF 0 - Len(list) <= i /\ i < 0 THEN [ok |-> TRUE, value |-> list[Len(list) + i + 1]]
  ELSE [ok |-> FALSE, value |-> "IndexError"]

\* line 346
approaches == <<"by_type", "by_project", "by_date", "hybrid_approach">>

\* lines 351-358: the approach chosen for what was typed at the first prompt
SelectApproach(typed) ==
  LET choice == Strip(typed)
      n == ParseInt(choice)
      item == ListItem(approaches, n.value - 1)
  IN  IF Len(choice) = 0 THEN "hybrid_approach"
      ELSE IF ~n.ok THEN "hybrid_approach"
      ELSE IF ~item.ok THEN "hybrid_approach"
      ELSE item.value

\* What can be typed at the first prompt: at most MaxChoiceLen characters.
MaxChoiceLen == 2
ChoiceAlphabet == {"0", "1", "2", "4", "5", "-", "+", " ", "_", "x"}
Choices == UNION {[1..n -> ChoiceAlphabet] : n \in 0..MaxChoiceLen}

YesNo == {<<"y">>, <<" ", "Y">>, <<"n">>, <<>>}
MainBasePaths == {<<>>, <<"out">>}
MainFaults == {NoFault, [kind |-> "mkdir", at |-> 2], [kind |-> "write", at |-> 3]}
MainTrees ==
  { [data_path |-> "missing", tree |-> [exists |-> FALSE, listing |-> <<>>]],
    [data_path |-> "data", tree |-> [exists |-> TRUE, listing |-> <<>>]],
    [data_path |-> "data",
     tree |-> [exists |-> TRUE,
               listing |-> << File(<<"r", ".", "p", "d", "f">>, TRUE, 0, 1),
                              File(<<"v", ".", "M", "P", "4">>, TRUE, 157417472, 1) >>]] }

\* lines 350-364: the first prompt, suggest_structure and print_structure
MainSelect(typed) ==
  LET approach == SelectApproach(typed)
      structure == suggest_structure(approach)
  IN  /\ main.pc = "select"
      /\ op' = "main_select"
      /\ args' = [typed |-> typed]
      /\ ret' = structure
      /\ main' = IF structure.kind = "ok"
                   THEN [pc |-> "create", approach |-> approach, structure |-> structure.value]
                   ELSE [pc |-> "done", approach |-> approach, structure |-> Dict(<<>>)]
      /\ UNCHANGED <<dirs, files, prev, calls>>

\* lines 366-385: the prompts for creating the structure; an exception of
\* create_folder_structure is caught and printed (line 384)
MainCreate(answer, base_path, dry_answer, fault) ==
  LET wanted == Cat(Lower(Strip(answer))) = "y" /\ Len(base_path) > 0
      dry_run == Cat(Lower(Strip(dry_answer))) # "n"
      r == create_folder_structure(dirs, files, base_path, main.structure, dry_run, fault)
  IN  /\ main.pc = "create"
      /\ ~wanted => (dry_answer = <<>> /\ fault = NoFault)
      /\ (wanted /\ dry_run) => fault = NoFault
      /\ op' = "main_create"
      /\ args' = [answer |-> answer, base_path |-> base_path, dry_answer |-> dry_answer,
                  fault |-> fault]
      /\ dirs' = IF wanted THEN r.dirs ELSE dirs
      /\ files' = IF wanted THEN r.files ELSE files
      /\ ret' = IF ~wanted THEN Return("skipped")
                ELSE IF r.ret.kind = "raise" THEN Return("error printed")
                ELSE Return([dry_run |-> dry_run, folders |-> Len(r.ret.value)])
      /\ main' = [main EXCEPT !.pc = "analyze"]
      /\ UNCHANGED <<prev, calls>>

\* lines 387-409: the prompts for analysing existing data
MainAnalyze(answer, t) ==
  LET wanted == Cat(Lower(Strip(answer))) = "y"
  IN  /\ main.pc = "analyze"
      /\ ~wanted => t.data_path = "missing"
      /\ op' = "main_analyze"
      /\ args' = [answer |-> answer, data_path |-> t.data_path, tree |-> t.tree]
      /\ ret' = IF wanted THEN analyze_existing_data(t.data_path, t.tree)
                ELSE Return("skipped")
      /\ main' = [main EXCEPT !.pc = "done"]
      /\ UNCHANGED <<dirs, files, prev, calls>>

InitMain ==
  /\ dirs = {Root}
  /\ files = <<>>
  /\ op = "none"
  /\ args = <<>>
  /\ ret = Return(<<>>)
  /\ prev = NoCall
  /\ calls = 0
  /\ main = [pc |-> "select", approach |-> "", structure |-> Dict(<<>>)]

NextMain ==
  \/ \E typed \in Choices : MainSelect(typed)
  \/ \E answer \in YesNo, base_path \in MainBasePaths, dry_answer \in YesNo,
        fault \in MainFaults :
       MainCreate(answer, base_path, dry_answer, fault)
  \/ \E answer \in YesNo, t \in MainTrees : MainAnalyze(answer, t)

SpecMain == InitMain /\ [][NextMain]_vars

\* C9 as claimed: the approach selected at the first prompt is the i-th entry of
\* by_type, by_project, by_date, hybrid_approach when what was typed is an integer i
\* in 1..4, and hybrid_approach for everything else typed.
C9_ApproachSelection ==
  op = "main_select" =>
    LET n == ParseInt(args.typed)
    IN  main.approach = IF n.ok /\ n.value \in 1..4
                          THEN <<"by_type", "by_project", "by_date", "hybrid_approach">>[n.value]
                          ELSE "hybrid_approach"

====
